---- MODULE Spec2Model ----
(***************************************************************************)
(* Model of Source/WebCore/html/track/TrackBase.cpp: the BCP 47 language   *)
(* tag validator, the TrackBase constructor and mutators, and              *)
(* MediaTrackBase::setKind.                                                *)
(*                                                                         *)
(* Strings (String, AtomString) are sequences of UTF-16 code units         *)
(* (naturals); the empty atom is the empty sequence.  The source indexes   *)
(* strings from 0, TLA+ sequences from 1: At(s, i) is s[i] of the source.  *)
(***************************************************************************)
EXTENDS Integers, Sequences, FiniteSets, TLC

\* ------------------------------------------------------------------ bounds
\* Number of tracks constructed in one process (caps s_uniqueId).
MaxTracks == 2
\* Number of tracks alive at the same time.
MaxLive == 1
\* Tags over Alphabet are enumerated exhaustively up to this length.
MaxLen == 4

\* ------------------------------------------------------- program constants
\* TrackBase.cpp:111  (length < 2 || length > 100)
MinTagLength == 2
MaxTagLength == 100
\* TrackBase.cpp:124  'i', 'x', '-'
CharLowerI == 105
CharLowerX == 120
CharHyphen == 45
\* TrackBase.cpp:170  (UChar)'\0'
CharNull == 0

\* ----------------------------------------------------------------- strings
emptyAtom == <<>>

isEmpty(string) == Len(string) = 0

At(string, index) == string[index + 1]

contains(string, character) ==
    \E index \in 0 .. (Len(string) - 1) : At(string, index) = character

isASCIIAlpha(character) ==
    \/ (character >= 65 /\ character <= 90)
    \/ (character >= 97 /\ character <= 122)

isASCIIDigit(character) == character >= 48 /\ character <= 57

isASCIIAlphanumeric(character) == isASCIIDigit(character) \/ isASCIIAlpha(character)

RECURSIVE makeString(_)
makeString(pieces) ==
    IF pieces = <<>> THEN <<>> ELSE Head(pieces) \o makeString(Tail(pieces))

RECURSIVE numberDigits(_)
numberDigits(number) ==
    IF number < 10 THEN <<48 + number>>
    ELSE Append(numberDigits(number \div 10), 48 + (number % 10))

\* "The language contains a null character and is not a valid BCP 47 language tag."
NullCharacterMessage ==
    <<84, 104, 101, 32, 108, 97, 110, 103, 117, 97, 103, 101, 32, 99, 111, 110,
      116, 97, 105, 110, 115, 32, 97, 32, 110, 117, 108, 108, 32, 99, 104, 97,
      114, 97, 99, 116, 101, 114, 32, 97, 110, 100, 32, 105, 115, 32, 110, 111,
      116, 32, 97, 32, 118, 97, 108, 105, 100, 32, 66, 67, 80, 32, 52, 55, 32,
      108, 97, 110, 103, 117, 97, 103, 101, 32, 116, 97, 103, 46>>

\* "The language '"
InvalidTagMessagePrefix ==
    <<84, 104, 101, 32, 108, 97, 110, 103, 117, 97, 103, 101, 32, 39>>

\* "' is not a valid BCP 47 language tag."
InvalidTagMessageSuffix ==
    <<39, 32, 105, 115, 32, 110, 111, 116, 32, 97, 32, 118, 97, 108, 105, 100,
      32, 66, 67, 80, 32, 52, 55, 32, 108, 97, 110, 103, 117, 97, 103, 101, 32,
      116, 97, 103, 46>>

\* --------------------------------------------------- the language validator
RECURSIVE scanSuffix(_, _)
scanSuffix(languageTag, nextCharIndexToCheck) ==
    IF nextCharIndexToCheck < Len(languageTag)
    THEN LET c == At(languageTag, nextCharIndexToCheck)
         IN  IF isASCIIAlphanumeric(c) \/ c = CharHyphen
             THEN scanSuffix(languageTag, nextCharIndexToCheck + 1)
             ELSE FALSE
    ELSE TRUE

\* Faulty variant: the upper length limit is not enforced.
isValidBCP47LanguageTag_NoMaxLength(languageTag) ==
    LET length == Len(languageTag)
    IN  IF length < MinTagLength THEN FALSE
        ELSE IF ~isASCIIAlpha(At(languageTag, 0)) THEN FALSE
        ELSE IF length = 2 THEN isASCIIAlpha(At(languageTag, 1))
        ELSE IF (At(languageTag, 0) = CharLowerI \/ At(languageTag, 0) = CharLowerX)
                /\ At(languageTag, 1) = CharHyphen
             THEN scanSuffix(languageTag, 2)
        ELSE IF ~isASCIIAlpha(At(languageTag, 1)) THEN FALSE
        ELSE IF length = 3 THEN isASCIIAlpha(At(languageTag, 2))
        ELSE IF isASCIIAlpha(At(languageTag, 2))
             THEN IF At(languageTag, 3) = CharHyphen
                  THEN scanSuffix(languageTag, 4) ELSE FALSE
        ELSE IF At(languageTag, 2) = CharHyphen THEN scanSuffix(languageTag, 3)
        ELSE FALSE

\* Faulty variant: after a three-letter primary subtag the scan resumes at index 3,
\* so the fourth character need not be '-'.
isValidBCP47LanguageTag_ResumeAtThree(languageTag) ==
    LET length == Len(languageTag)
    IN  IF length < MinTagLength \/ length > MaxTagLength THEN FALSE
        ELSE IF ~isASCIIAlpha(At(languageTag, 0)) THEN FALSE
        ELSE IF length = 2 THEN isASCIIAlpha(At(languageTag, 1))
        ELSE IF (At(languageTag, 0) = CharLowerI \/ At(languageTag, 0) = CharLowerX)
                /\ At(languageTag, 1) = CharHyphen
             THEN scanSuffix(languageTag, 2)
        ELSE IF ~isASCIIAlpha(At(languageTag, 1)) THEN FALSE
        ELSE IF length = 3 THEN isASCIIAlpha(At(languageTag, 2))
        ELSE IF isASCIIAlpha(At(languageTag, 2)) \/ At(languageTag, 2) = CharHyphen
             THEN scanSuffix(languageTag, 3)
        ELSE FALSE

isValidBCP47LanguageTag(languageTag) ==
    LET length == Len(languageTag)
    IN  IF length < MinTagLength \/ length > MaxTagLength THEN FALSE
        ELSE LET firstChar == At(languageTag, 0)
        IN  IF ~isASCIIAlpha(firstChar) THEN FALSE
        ELSE LET secondChar == At(languageTag, 1)
        IN  IF length = 2 THEN isASCIIAlpha(secondChar)
        ELSE LET grandFatheredIrregularOrPrivateUse ==
                     (firstChar = CharLowerI \/ firstChar = CharLowerX)
                     /\ secondChar = CharHyphen
        IN  IF ~grandFatheredIrregularOrPrivateUse
            THEN IF ~isASCIIAlpha(secondChar) THEN FALSE
                 ELSE IF length = 3 THEN isASCIIAlpha(At(languageTag, 2))
                 ELSE IF isASCIIAlpha(At(languageTag, 2))
                      THEN IF At(languageTag, 3) = CharHyphen
                           THEN scanSuffix(languageTag, 4)
                           ELSE FALSE
                 ELSE IF At(languageTag, 2) = CharHyphen
                      THEN scanSuffix(languageTag, 3)
                 ELSE FALSE
            ELSE scanSuffix(languageTag, 2)

\* ------------------------------------------------------------ environment
\* ScriptExecutionContext* of the ContextDestructionObserver base; null when
\* no context is attached.
NoContext == "nullptr"
Documents == {"document", "templateDocument"}

\* Document::contextDocument(): a document without a context of its own
\* (a template document) answers the document that owns it.
contextDocument(document) ==
    IF document = "templateDocument" THEN "document" ELSE document

Contexts == {NoContext} \cup {contextDocument(d) : d \in Documents}

\* TrackListBase objects a track can be added to; m_trackList is null otherwise.
NullList == "nullptr"
TrackLists == {"list1", "list2"}

\* TrackBase::Type handed to the MediaTrackBase constructor (never BaseTrack).
Types == {"VideoTrack"}

\* "main", "bogus"
KindMain == <<109, 97, 105, 110>>
KindBogus == <<98, 111, 103, 117, 115>>
Kinds == {emptyAtom, KindMain, KindBogus}

\* The pure virtual MediaTrackBase::isValidKind of the concrete track.
isValidKind(this, kind) == kind = KindMain

\* Constructor arguments other than the language.
OptionalIds == {<<>>}
TrackIds == {7}
\* "English"
Labels == {<<69, 110, 103, 108, 105, 115, 104>>}

\* ------------------------------------------------------------------ inputs
\* NUL, '-', '5', 'Z', '_', 'a', 'i', 'x', and U+0161 (low byte 'a').
Alphabet == {0, 45, 53, 90, 95, 97, 105, 120, 353}

RECURSIVE StringsOfLength(_)
StringsOfLength(n) ==
    IF n = 0 THEN {<<>>}
    ELSE {Append(s, c) : s \in StringsOfLength(n - 1), c \in Alphabet}

RECURSIVE Repeat(_, _)
Repeat(c, n) == IF n = 0 THEN <<>> ELSE Append(Repeat(c, n - 1), c)

TagEn == <<101, 110>>
TagEng == <<101, 110, 103>>
TagEnUS == <<101, 110, 45, 85, 83>>
TagIKlingon == <<105, 45, 107, 108, 105, 110, 103, 111, 110>>
TagXCustom == <<120, 45, 99, 117, 115, 116, 111, 109>>
TagE == <<101>>
Tag1n == <<49, 110>>
TagEnUnderscoreUS == <<101, 110, 95, 85, 83>>
TagNotValid == <<110, 111, 116, 32, 118, 97, 108, 105, 100, 33, 33>>
TagIHyphenNull == <<105, 45, 0>>

ExampleTags ==
    {TagEn, TagEng, TagEnUS, TagIKlingon, TagXCustom, TagE, Tag1n,
     TagEnUnderscoreUS, TagNotValid, TagIHyphenNull}

\* Tags around the length limit: a head, a run of one character, one last
\* character (or none).
LongHeads ==
    {<<>>, <<97>>, TagEn, <<105, 45>>, <<120, 45>>, <<101, 110, 45>>,
     <<101, 110, 103, 45>>}

LongTags ==
    {h \o Repeat(c, n) \o t :
        h \in LongHeads, c \in {97, 45},
        n \in (MaxTagLength - 5) .. (MaxTagLength + 1),
        t \in StringsOfLength(0) \cup StringsOfLength(1)}

ShortTags == UNION {StringsOfLength(n) : n \in 0 .. MaxLen}

Inputs == ShortTags \cup ExampleTags \cup LongTags

\* Languages used where tracks are interleaved.
Languages == {emptyAtom, TagEn, TagNotValid, TagIHyphenNull}

\* ------------------------------------------------------------------- state
VARIABLES
    s_uniqueId,   \* the static counter
    tracks,       \* the tracks constructed so far, in construction order
    issued,       \* history: the m_uniqueId given to each construction
    posted,       \* the console messages added by the most recent call
    last,         \* the most recent call: [op, self, arg]
    tag,          \* input of the validator runs
    checked,      \* the validator has been applied to tag
    result        \* what it returned

trackVars == <<s_uniqueId, tracks, issued, posted, last>>
tagVars == <<tag, checked, result>>
vars == <<s_uniqueId, tracks, issued, posted, last, tag, checked, result>>

\* A track whose destructor has run.
Destroyed == [alive |-> FALSE]

Live == {t \in DOMAIN tracks : tracks[t].alive}

\* ------------------------------------------------------------- TrackBase
\* The object as the member initialisers leave it, before the body runs.
initialised(context, id, trackId, label, language, uniqueId) ==
    [alive |-> TRUE,
     m_context |-> context,
     m_uniqueId |-> uniqueId,
     m_id |-> IF id # <<>> THEN id[1] ELSE numberDigits(trackId),
     m_trackId |-> trackId,
     m_label |-> label,
     m_language |-> language,
     m_validBCP47Language |-> emptyAtom,
     m_type |-> "BaseTrack",
     m_kind |-> emptyAtom,
     m_trackList |-> NullList]

scriptExecutionContext(this) == this.m_context

\* The console message of setLanguage for a rejected tag.
invalidLanguageMessage(context, language) ==
    [context |-> context,
     source |-> "Rendering",
     level |-> "Warning",
     message |-> IF contains(language, CharNull)
                 THEN NullCharacterMessage
                 ELSE makeString(<<InvalidTagMessagePrefix, language,
                                   InvalidTagMessageSuffix>>)]

\* Faulty variant: the language is taken as valid without asking the validator.
TrackBase_Unvalidated(context, type, id, trackId, label, language, counter) ==
    [self |-> [initialised(context, id, trackId, label, language, counter + 1)
                   EXCEPT !.m_validBCP47Language = language, !.m_type = type],
     s_uniqueId |-> counter + 1,
     console |-> <<>>]

\* Faulty variant: the counter is read but never advanced.
TrackBase_NoIncrement(context, type, id, trackId, label, language, counter) ==
    [self |-> [initialised(context, id, trackId, label, language, counter + 1)
                   EXCEPT !.m_validBCP47Language =
                              IF isValidBCP47LanguageTag(language)
                              THEN language ELSE emptyAtom,
                          !.m_type = type],
     s_uniqueId |-> counter,
     console |-> <<>>]

\* Faulty variant: a rejected initial language is reported like in setLanguage.
TrackBase_Warns(context, type, id, trackId, label, language, counter) ==
    [self |-> [initialised(context, id, trackId, label, language, counter + 1)
                   EXCEPT !.m_validBCP47Language =
                              IF isValidBCP47LanguageTag(language)
                              THEN language ELSE emptyAtom,
                          !.m_type = type],
     s_uniqueId |-> counter + 1,
     console |-> IF isEmpty(language) \/ isValidBCP47LanguageTag(language)
                    \/ context = NoContext
                 THEN <<>>
                 ELSE <<invalidLanguageMessage(context, language)>>]

\* TrackBase::TrackBase; counter is s_uniqueId before the call.
TrackBase(context, type, id, trackId, label, language, counter) ==
    LET uniqueId == counter + 1
        object == initialised(context, id, trackId, label, language, uniqueId)
        validated == IF isValidBCP47LanguageTag(language)
                     THEN [object EXCEPT !.m_validBCP47Language = language]
                     ELSE object
    IN  [self |-> [validated EXCEPT !.m_type = type],
         s_uniqueId |-> uniqueId,
         console |-> <<>>]

didMoveToNewDocument(this, newDocument) ==
    [this EXCEPT !.m_context = contextDocument(newDocument)]

\* ContextDestructionObserver::contextDestroyed
contextDestroyed(this) == [this EXCEPT !.m_context = NoContext]

\* Faulty variant: a track that is in a list keeps it.
setTrackList_OnlyIfUnset(this, trackList) ==
    IF this.m_trackList = NullList
    THEN [this EXCEPT !.m_trackList = trackList]
    ELSE this

setTrackList(this, trackList) == [this EXCEPT !.m_trackList = trackList]

clearTrackList(this) == [this EXCEPT !.m_trackList = NullList]

trackList(this) == this.m_trackList

\* Faulty variant: the empty language goes through the validator too.
setLanguage_NoEmptyCheck(this, language) ==
    LET stored == [this EXCEPT !.m_language = language]
    IN  IF isValidBCP47LanguageTag(language)
        THEN [self |-> [stored EXCEPT !.m_validBCP47Language = language],
              console |-> <<>>]
        ELSE [self |-> [stored EXCEPT !.m_validBCP47Language = emptyAtom],
              console |-> IF scriptExecutionContext(this) = NoContext THEN <<>>
                          ELSE <<invalidLanguageMessage(
                                     scriptExecutionContext(this), language)>>]

\* Faulty variant: a null character is not told apart.
setLanguage_NoNullCheck(this, language) ==
    LET stored == [this EXCEPT !.m_language = language]
    IN  IF isEmpty(language) \/ isValidBCP47LanguageTag(language)
        THEN [self |-> [stored EXCEPT !.m_validBCP47Language = language],
              console |-> <<>>]
        ELSE [self |-> [stored EXCEPT !.m_validBCP47Language = emptyAtom],
              console |-> IF scriptExecutionContext(this) = NoContext THEN <<>>
                          ELSE <<[context |-> scriptExecutionContext(this),
                                  source |-> "Rendering",
                                  level |-> "Warning",
                                  message |-> makeString(
                                      <<InvalidTagMessagePrefix, language,
                                        InvalidTagMessageSuffix>>)]>>]

\* Faulty variant: the message quotes the validated language, already cleared.
setLanguage_QuotesValidated(this, language) ==
    LET stored == [this EXCEPT !.m_language = language]
    IN  IF isEmpty(language) \/ isValidBCP47LanguageTag(language)
        THEN [self |-> [stored EXCEPT !.m_validBCP47Language = language],
              console |-> <<>>]
        ELSE [self |-> [stored EXCEPT !.m_validBCP47Language = emptyAtom],
              console |-> IF scriptExecutionContext(this) = NoContext THEN <<>>
                          ELSE <<invalidLanguageMessage(
                                     scriptExecutionContext(this), emptyAtom)>>]

\* TrackBase::setLanguage: the object after the call and the messages added
\* to the console of its context.
setLanguage(this, language) ==
    LET stored == [this EXCEPT !.m_language = language]
    IN  IF isEmpty(language) \/ isValidBCP47LanguageTag(language)
        THEN [self |-> [stored EXCEPT !.m_validBCP47Language = language],
              console |-> <<>>]
        ELSE LET cleared == [stored EXCEPT !.m_validBCP47Language = emptyAtom]
                 context == scriptExecutionContext(this)
             IN  IF context = NoContext
                 THEN [self |-> cleared, console |-> <<>>]
                 ELSE [self |-> cleared,
                       console |-> <<invalidLanguageMessage(context, language)>>]

\* Faulty variant: an invalid kind leaves the previous kind in place.
setKindInternal_KeepsPrevious(this, kind) ==
    IF isValidKind(this, kind) THEN [this EXCEPT !.m_kind = kind] ELSE this

setKindInternal(this, kind) ==
    IF isValidKind(this, kind)
    THEN [this EXCEPT !.m_kind = kind]
    ELSE [this EXCEPT !.m_kind = emptyAtom]

setKind(this, kind) == setKindInternal(this, kind)

\* ----------------------------------------------------------------- actions
InitTracks ==
    /\ s_uniqueId = 0
    /\ tracks = <<>>
    /\ issued = <<>>
    /\ posted = <<>>
    /\ last = [op |-> "none", self |-> 0, arg |-> <<>>]

Construct(context, type, id, trackId, label, language) ==
    /\ s_uniqueId < MaxTracks
    /\ Cardinality(Live) < MaxLive
    /\ LET made == TrackBase(context, type, id, trackId, label, language, s_uniqueId)
       IN  /\ tracks' = Append(tracks, made.self)
           /\ s_uniqueId' = made.s_uniqueId
           /\ issued' = Append(issued, made.self.m_uniqueId)
           /\ posted' = made.console
    /\ last' = [op |-> "TrackBase", self |-> Len(tracks) + 1, arg |-> language]

Destroy(t) ==
    /\ t \in Live
    /\ tracks' = [tracks EXCEPT ![t] = Destroyed]
    /\ posted' = <<>>
    /\ last' = [op |-> "~TrackBase", self |-> t, arg |-> <<>>]
    /\ UNCHANGED <<s_uniqueId, issued>>

DidMoveToNewDocument(t, newDocument) ==
    /\ t \in Live
    /\ tracks' = [tracks EXCEPT ![t] = didMoveToNewDocument(@, newDocument)]
    /\ posted' = <<>>
    /\ last' = [op |-> "didMoveToNewDocument", self |-> t, arg |-> newDocument]
    /\ UNCHANGED <<s_uniqueId, issued>>

ContextDestroyed(t) ==
    /\ t \in Live
    /\ tracks[t].m_context # NoContext
    /\ tracks' = [tracks EXCEPT ![t] = contextDestroyed(@)]
    /\ posted' = <<>>
    /\ last' = [op |-> "contextDestroyed", self |-> t, arg |-> <<>>]
    /\ UNCHANGED <<s_uniqueId, issued>>

SetTrackList(t, list) ==
    /\ t \in Live
    /\ tracks' = [tracks EXCEPT ![t] = setTrackList(@, list)]
    /\ posted' = <<>>
    /\ last' = [op |-> "setTrackList", self |-> t, arg |-> list]
    /\ UNCHANGED <<s_uniqueId, issued>>

ClearTrackList(t) ==
    /\ t \in Live
    /\ tracks' = [tracks EXCEPT ![t] = clearTrackList(@)]
    /\ posted' = <<>>
    /\ last' = [op |-> "clearTrackList", self |-> t, arg |-> <<>>]
    /\ UNCHANGED <<s_uniqueId, issued>>

SetLanguage(t, language) ==
    /\ t \in Live
    /\ LET done == setLanguage(tracks[t], language)
       IN  /\ tracks' = [tracks EXCEPT ![t] = done.self]
           /\ posted' = done.console
    /\ last' = [op |-> "setLanguage", self |-> t, arg |-> language]
    /\ UNCHANGED <<s_uniqueId, issued>>

SetKind(t, kind) ==
    /\ t \in Live
    /\ tracks' = [tracks EXCEPT ![t] = setKind(@, kind)]
    /\ posted' = <<>>
    /\ last' = [op |-> "setKind", self |-> t, arg |-> kind]
    /\ UNCHANGED <<s_uniqueId, issued>>

\* ------------------------------------------ the tracks of one process: Spec
Init ==
    /\ InitTracks
    /\ tag = emptyAtom
    /\ checked = FALSE
    /\ result = FALSE

ConstructStep ==
    /\ \E context \in Contexts, type \in Types, id \in OptionalIds,
          trackId \in TrackIds, label \in Labels, language \in Languages :
           Construct(context, type, id, trackId, label, language)
    /\ UNCHANGED tagVars

DestroyStep == (\E t \in Live : Destroy(t)) /\ UNCHANGED tagVars

DidMoveStep ==
    /\ \E t \in Live, newDocument \in Documents : DidMoveToNewDocument(t, newDocument)
    /\ UNCHANGED tagVars

ContextDestroyedStep == (\E t \in Live : ContextDestroyed(t)) /\ UNCHANGED tagVars

SetTrackListStep ==
    /\ \E t \in Live, list \in TrackLists : SetTrackList(t, list)
    /\ UNCHANGED tagVars

ClearTrackListStep == (\E t \in Live : ClearTrackList(t)) /\ UNCHANGED tagVars

SetLanguageStep ==
    /\ \E t \in Live, language \in Languages : SetLanguage(t, language)
    /\ UNCHANGED tagVars

SetKindStep == (\E t \in Live, kind \in Kinds : SetKind(t, kind)) /\ UNCHANGED tagVars

Next ==
    \/ ConstructStep
    \/ DestroyStep
    \/ DidMoveStep
    \/ ContextDestroyedStep
    \/ SetTrackListStep
    \/ ClearTrackListStep
    \/ SetLanguageStep
    \/ SetKindStep

Spec == Init /\ [][Next]_vars

\* ------------------------------------ the validator on every input: SpecTag
InitTag ==
    /\ InitTracks
    /\ tag \in Inputs
    /\ checked = FALSE
    /\ result = FALSE

CheckTag ==
    /\ ~checked
    /\ checked' = TRUE
    /\ result' = isValidBCP47LanguageTag(tag)
    /\ UNCHANGED <<tag, s_uniqueId, tracks, issued, posted, last>>

NextTag == CheckTag

SpecTag == InitTag /\ [][NextTag]_vars

\* --------------------- one track, constructed and set from tag: SpecLang
ConstructTag ==
    /\ tracks = <<>>
    /\ \E context \in Contexts, type \in Types, id \in OptionalIds,
          trackId \in TrackIds, label \in Labels, language \in {tag, TagEn} :
           Construct(context, type, id, trackId, label, language)
    /\ UNCHANGED tagVars

SetLanguageTag == (\E t \in Live : SetLanguage(t, tag)) /\ UNCHANGED tagVars

NextLang == ConstructTag \/ SetLanguageTag

SpecLang == InitTag /\ [][NextLang]_vars

\* ================================================================== claims
\* The characters of the tag grammar, written out as sets.
Letter(c) == c \in (65 .. 90) \cup (97 .. 122)
TagCharacter(c) == Letter(c) \/ c \in 48 .. 57 \/ c = 45

\* Every character from the (0-based) resume index on is alphanumeric or '-'.
SuffixFrom(s, resume) == \A j \in (resume + 1) .. Len(s) : TagCharacter(s[j])

\* The grammar of the language tag, for tags of 2 to 100 characters.
Grammar(s) ==
    /\ Letter(s[1])
    /\ IF Len(s) = 2 THEN Letter(s[2])
       ELSE IF s[1] \in {105, 120} /\ s[2] = 45 THEN SuffixFrom(s, 2)
       ELSE /\ Letter(s[2])
            /\ IF Len(s) = 3 THEN Letter(s[3])
               ELSE \/ Letter(s[3]) /\ s[4] = 45 /\ SuffixFrom(s, 4)
                    \/ s[3] = 45 /\ SuffixFrom(s, 3)

HasNull(s) == \E j \in 1 .. Len(s) : s[j] = 0

\* The track the most recent call was made on.
Self == tracks[last.self]

\* C1: in every reachable state the validated language of a track is empty,
\* or it equals the raw language and the validator accepts it; and it is
\* empty whenever the raw language is empty.
C1_ValidatedLanguage ==
    \A t \in Live :
        /\ \/ tracks[t].m_validBCP47Language = <<>>
           \/ /\ tracks[t].m_validBCP47Language = tracks[t].m_language
              /\ isValidBCP47LanguageTag(tracks[t].m_language)
        /\ tracks[t].m_language = <<>> => tracks[t].m_validBCP47Language = <<>>

\* setLanguage("not valid!!") was called on a track with a context: the raw
\* language is stored, the validated one is empty.
C1_Witness ==
    /\ last.op = "setLanguage"
    /\ Self.m_language = TagNotValid
    /\ Self.m_validBCP47Language = <<>>
    /\ posted # <<>>

\* C2: the validator returns false for every tag shorter than 2 or longer
\* than 100 characters, whatever the characters.
C2_LengthLimits ==
    (checked /\ (Len(tag) < 2 \/ Len(tag) > 100)) => result = FALSE

\* The validator has run on a tag of 101 characters that starts with "i-"
\* and has only letters and hyphens.
C2_Witness ==
    /\ checked
    /\ Len(tag) = 101
    /\ tag[1] = 105 /\ tag[2] = 45
    /\ \A j \in 1 .. Len(tag) : TagCharacter(tag[j])
    /\ result = FALSE

\* C3: for every tag of 2 to 100 characters the validator returns what the
\* grammar prescribes; "en", "eng", "en-US", "i-klingon", "x-custom" are
\* accepted and "e", "1n", "en_US" are rejected.
C3_Grammar ==
    checked =>
        /\ (Len(tag) >= 2 /\ Len(tag) <= 100) => (result <=> Grammar(tag))
        /\ tag \in {TagEn, TagEng, TagEnUS, TagIKlingon, TagXCustom} => result = TRUE
        /\ tag \in {TagE, Tag1n, TagEnUnderscoreUS} => result = FALSE

\* The validator has accepted a tag through the "i-" shortcut.
C3_Witness == checked /\ tag = TagIKlingon /\ result = TRUE

\* C4: a call of setLanguage posts one diagnostic if the text is not empty,
\* the validator rejects it and a context is attached, and none otherwise;
\* setLanguage("") leaves the validated language empty; whatever is posted is
\* posted by setLanguage to the attached context.
C4_DiagnosticIff ==
    /\ last.op = "setLanguage" =>
           /\ Len(posted) =
                  IF /\ last.arg # <<>>
                     /\ ~isValidBCP47LanguageTag(last.arg)
                     /\ Self.m_context # NoContext
                  THEN 1 ELSE 0
           /\ last.arg = <<>> => Self.m_validBCP47Language = <<>>
    /\ posted # <<>> =>
           /\ last.op = "setLanguage"
           /\ \A j \in 1 .. Len(posted) :
                  /\ posted[j].context # NoContext
                  /\ posted[j].context = Self.m_context

\* setLanguage("") was called on a track with a context: nothing is posted.
C4_Witness ==
    /\ last.op = "setLanguage"
    /\ last.arg = <<>>
    /\ Self.m_context # NoContext
    /\ Self.m_language = <<>>
    /\ posted = <<>>

\* C5: setLanguage with a text that holds a null character leaves the
\* validated language empty and, with a context attached, posts exactly the
\* null-character message; the validator accepts no such text.
C5_NullCharacter ==
    /\ HasNull(tag) => ~isValidBCP47LanguageTag(tag)
    /\ (last.op = "setLanguage" /\ HasNull(last.arg)) =>
           /\ Self.m_validBCP47Language = <<>>
           /\ Self.m_context # NoContext =>
                  posted = <<[context |-> Self.m_context,
                              source |-> "Rendering",
                              level |-> "Warning",
                              message |-> NullCharacterMessage]>>
           /\ Self.m_context = NoContext => posted = <<>>

\* setLanguage was called with "x-" followed by letters and a null character
\* in last place, on a track with a context.
C5_Witness ==
    /\ last.op = "setLanguage"
    /\ Len(last.arg) = 4
    /\ last.arg[1] = 120 /\ last.arg[2] = 45 /\ last.arg[3] = 97 /\ last.arg[4] = 0
    /\ Self.m_context # NoContext
    /\ Len(posted) = 1

\* C6: setLanguage(t) for a non-empty rejected t without a null character, on
\* a track with a context, stores t, empties the validated language and posts
\* "The language '<t>' is not a valid BCP 47 language tag." with t unchanged,
\* source Rendering, level Warning.
C6_GeneralMessage ==
    (/\ last.op = "setLanguage"
     /\ last.arg # <<>>
     /\ ~isValidBCP47LanguageTag(last.arg)
     /\ ~HasNull(last.arg)
     /\ Self.m_context # NoContext) =>
        /\ Self.m_language = last.arg
        /\ Self.m_validBCP47Language = <<>>
        /\ Len(posted) = 1
        /\ posted[1].source = "Rendering"
        /\ posted[1].level = "Warning"
        /\ posted[1].context = Self.m_context
        /\ posted[1].message =
               InvalidTagMessagePrefix \o last.arg \o InvalidTagMessageSuffix
        /\ SubSeq(posted[1].message, 15, 14 + Len(last.arg)) = last.arg

\* setLanguage("not valid!!") on a track with a context.
C6_Witness ==
    /\ last.op = "setLanguage"
    /\ last.arg = TagNotValid
    /\ Self.m_context # NoContext
    /\ Len(posted) = 1
    /\ Len(posted[1].message) = 62

\* C7: a construction gives the new track an id greater than every id given
\* before, also to tracks destroyed since; no other step changes the counter
\* or the id of a track.
C7_UniqueIds ==
    [][ IF Len(tracks') > Len(tracks)
        THEN /\ Len(tracks') = Len(tracks) + 1
             /\ issued' = Append(issued, tracks'[Len(tracks')].m_uniqueId)
             /\ \A j \in 1 .. Len(issued) : issued[j] < tracks'[Len(tracks')].m_uniqueId
             /\ s_uniqueId' = tracks'[Len(tracks')].m_uniqueId
             /\ \A t \in Live : tracks'[t].m_uniqueId = tracks[t].m_uniqueId
        ELSE /\ s_uniqueId' = s_uniqueId
             /\ issued' = issued
             /\ \A t \in Live :
                    tracks'[t].alive => tracks'[t].m_uniqueId = tracks[t].m_uniqueId
      ]_vars

\* A second track was constructed after the first one was destroyed.
C7_Witness ==
    /\ last.op = "TrackBase"
    /\ last.self = 2
    /\ ~tracks[1].alive
    /\ tracks[2].m_uniqueId = 2
    /\ issued = <<1, 2>>

\* C8: setTrackList makes trackList() the list passed, clearTrackList makes
\* it null, a new track has none, and no other call changes it; the two
\* calls post nothing and leave label, language, validated language and kind.
C8_TrackList ==
    [][ /\ Len(tracks') > Len(tracks) => trackList(tracks'[Len(tracks')]) = NullList
        /\ \A t \in Live :
               tracks'[t].alive =>
                   IF last'.self = t /\ last'.op \in {"setTrackList", "clearTrackList"}
                   THEN /\ trackList(tracks'[t]) =
                               IF last'.op = "setTrackList" THEN last'.arg ELSE NullList
                        /\ posted' = <<>>
                        /\ tracks'[t].m_label = tracks[t].m_label
                        /\ tracks'[t].m_language = tracks[t].m_language
                        /\ tracks'[t].m_validBCP47Language = tracks[t].m_validBCP47Language
                        /\ tracks'[t].m_kind = tracks[t].m_kind
                   ELSE trackList(tracks'[t]) = trackList(tracks[t])
      ]_vars

\* clearTrackList was called on a track whose language and kind are set.
C8_Witness ==
    /\ last.op = "clearTrackList"
    /\ trackList(Self) = NullList
    /\ Self.m_validBCP47Language = TagEn
    /\ Self.m_kind = KindMain

\* C9: setKind(k) makes the kind k if isValidKind(k) and empty otherwise, posts
\* nothing and leaves language, validated language and track list.
C9_SetKind ==
    [][ \A t \in Live :
            (last'.op = "setKind" /\ last'.self = t) =>
                /\ tracks'[t].m_kind =
                       IF isValidKind(tracks[t], last'.arg) THEN last'.arg ELSE <<>>
                /\ posted' = <<>>
                /\ tracks'[t].m_language = tracks[t].m_language
                /\ tracks'[t].m_validBCP47Language = tracks[t].m_validBCP47Language
                /\ tracks'[t].m_trackList = tracks[t].m_trackList
                /\ tracks'[t].m_context = tracks[t].m_context
      ]_vars

\* setKind was called with an invalid kind on a track with a context and a
\* list: the kind is empty.
C9_Witness ==
    /\ last.op = "setKind"
    /\ last.arg = KindBogus
    /\ Self.m_kind = <<>>
    /\ Self.m_context # NoContext
    /\ Self.m_trackList # NullList

\* C10: the constructor stores a rejected non-empty initial language, leaves
\* the validated language empty and posts nothing; setLanguage with the same
\* text right after reaches the same raw and validated language and, with a
\* context attached, posts a diagnostic.
C10_ConstructorSilent ==
    [][ /\ (/\ last'.op = "TrackBase"
            /\ last'.arg # <<>>
            /\ ~isValidBCP47LanguageTag(last'.arg)) =>
               /\ tracks'[last'.self].m_language = last'.arg
               /\ tracks'[last'.self].m_validBCP47Language = <<>>
               /\ posted' = <<>>
        /\ (/\ last.op = "TrackBase"
            /\ last.arg # <<>>
            /\ ~isValidBCP47LanguageTag(last.arg)
            /\ last'.op = "setLanguage"
            /\ last'.self = last.self
            /\ last'.arg = last.arg) =>
               /\ tracks'[last.self].m_language = tracks[last.self].m_language
               /\ tracks'[last.self].m_validBCP47Language =
                      tracks[last.self].m_validBCP47Language
               /\ Len(posted') =
                      IF tracks[last.self].m_context # NoContext THEN 1 ELSE 0
      ]_vars

\* A track was constructed with "not valid!!" and a context: nothing posted.
C10_Witness ==
    /\ last.op = "TrackBase"
    /\ last.arg = TagNotValid
    /\ Self.m_context # NoContext
    /\ Self.m_language = TagNotValid
    /\ Self.m_validBCP47Language = <<>>
    /\ posted = <<>>

====
